---------------------------- MODULE Spec2Model ----------------------------
(***************************************************************************)
(* A model of the xl_brainfuck_env<storage_t> class (xlbrainfuck.h): the   *)
(* tape and its pointer, interpret(), translate() and reset(), together    *)
(* with the execution of the C program that translate() emits.             *)
(*                                                                         *)
(* A cell is modelled by its bytes, least significant first, so that every *)
(* storage type keeps its width: an increment is a ripple carry that wraps *)
(* modulo 2^bits, and signedness is only a way of reading the bytes.       *)
(* Pointers into the tape are modelled as cell indices relative to         *)
(* minaddr: index 0 is minaddr, index tapesize - 1 is maxaddr; an index    *)
(* outside that range is an address outside the block (the builds the      *)
(* header targets compute such addresses by plain address arithmetic).     *)
(***************************************************************************)
EXTENDS Integers, Sequences, FiniteSets, TLC

(***************************************************************************)
(* Bounds of the model.                                                    *)
(***************************************************************************)
\* Longest instruction stream handed to interpret() or translate().
MaxLen == 3
\* Largest tape capacity an environment is constructed with.
MaxTape == 2
\* Most instructions one interpret() call (or one run of an emitted
\* program) executes before the model stops following it.
MaxSteps == 8

(***************************************************************************)
(* Storage types: the template parameter storage_t.                        *)
(***************************************************************************)
\* The integral types translate() names (its DECLTYPE_STR chain); widths are
\* those of the platform the header is written for (<conio.h>: 32-bit long).
StorageTypes ==
    { "char", "unsigned char", "short", "unsigned short", "int", "unsigned",
      "long long", "unsigned long long" }

\* sizeof(storage_t)
SizeOf(t) ==
    CASE t \in {"char", "unsigned char"} -> 1
      [] t \in {"short", "unsigned short"} -> 2
      [] t \in {"int", "unsigned"} -> 4
      [] OTHER -> 8

\* std::is_signed<storage_t>
IsSigned(t) == t \in {"char", "short", "int", "long long"}

\* The string translate() prints for storage_t.
DECLTYPE_STR(t) == t

(***************************************************************************)
(* Cell values as byte sequences (little endian).                          *)
(***************************************************************************)
Byte == 0..255

\* The value 0 of type t (what calloc and reset() store).
Zero(t) == [k \in 1..SizeOf(t) |-> 0]

RECURSIVE IncFrom(_, _)
\* Ripple-carry increment of the bytes k.. of v.
IncFrom(v, k) ==
    IF k > Len(v) THEN v
    ELSE IF v[k] = 255 THEN IncFrom([v EXCEPT ![k] = 0], k + 1)
    ELSE [v EXCEPT ![k] = v[k] + 1]

RECURSIVE DecFrom(_, _)
\* Ripple-borrow decrement of the bytes k.. of v.
DecFrom(v, k) ==
    IF k > Len(v) THEN v
    ELSE IF v[k] = 0 THEN DecFrom([v EXCEPT ![k] = 255], k + 1)
    ELSE [v EXCEPT ![k] = v[k] - 1]

\* x++ on a storage_t lvalue: wraps modulo 2^bits.  (For a signed int or
\* long long at its maximum the C++ increment overflows; that value is out
\* of reach of MaxSteps increments from 0 or from a key code.)
Incr(v) == IncFrom(v, 1)
\* x-- on a storage_t lvalue.
Decr(v) == DecFrom(v, 1)

\* -x on the bytes of x (two's complement).
Negated(v) == Incr([k \in 1..Len(v) |-> 255 - v[k]])

IsZero(v) == \A k \in 1..Len(v) : v[k] = 0

\* The sign bit of the bytes, read as type t.
IsNegative(t, v) == IsSigned(t) /\ v[Len(v)] >= 128

\* The four low bytes of v widened to t's int conversion rank: the bytes an
\* int holds after integral promotion (types narrower than int) or that an
\* int read of the value sees (32-bit types).
Widen4(t, v) ==
    [k \in 1..4 |->
        IF k <= Len(v) THEN v[k]
        ELSE IF IsNegative(t, v) THEN 255 ELSE 0]

\* Four bytes read as a two's-complement int.
IntOfBytes(b) ==
    b[1] + 256 * b[2] + 65536 * b[3]
      + 16777216 * (IF b[4] >= 128 THEN b[4] - 256 ELSE b[4])

\* The storage_t value an int n converts to (n modulo 2^bits).
RECURSIVE BytesOfInt(_, _)
BytesOfInt(n, size) ==
    IF size = 0 THEN << >>
    ELSE << n % 256 >> \o BytesOfInt(n \div 256, size - 1)


(***************************************************************************)
(* printf conversions.                                                     *)
(***************************************************************************)
\* The int a %d or %c conversion reads when the argument passed is a
\* storage_t of bytes v.  Types narrower than int arrive promoted; a 32-bit
\* type arrives as its four bytes.  A 64-bit argument does not match the
\* conversion: the int read is one 32-bit word of the argument, and which
\* one (va = 1: bytes 1..4, va = 5: bytes 5..8) is a property of the build.
VarArgInt(t, va, v) ==
    IF SizeOf(t) = 8
    THEN IntOfBytes([k \in 1..4 |-> v[va + k - 1]])
    ELSE IntOfBytes(Widen4(t, v))

RECURSIVE DigitsOfNat(_)
\* The decimal digits of n >= 0 as character codes, most significant first.
DigitsOfNat(n) ==
    IF n < 10 THEN << 48 + n >>
    ELSE Append(DigitsOfNat(n \div 10), 48 + (n % 10))

RECURSIVE DigitsOfNeg(_)
\* The decimal digits of -n for n < 0 (computed without negating n).
DigitsOfNeg(n) ==
    LET d == (10 - (n % 10)) % 10
        q == (n + d) \div 10
    IN  IF q = 0 THEN << 48 + d >>
        ELSE Append(DigitsOfNeg(q), 48 + d)

\* The characters "%d" prints for the int n.
FormatD(n) == IF n < 0 THEN << 45 >> \o DigitsOfNeg(n) ELSE DigitsOfNat(n)

\* The character "%c" prints for the int n: (unsigned char) n.
FormatC(n) == << n % 256 >>

(***************************************************************************)
(* Instruction streams: NUL-terminated strings, modelled as sequences of   *)
(* one-character strings; position Len + 1 holds the terminating NUL.      *)
(***************************************************************************)
\* "x" stands for every character the switch statements leave to default.
Alphabet == { ">", "<", "+", "-", ".", ":", ",", "[", "]", "x" }

NUL == "NUL"

\* *p for a pointer p into the string s (p = 1 is the first character).
CharAt(s, p) == IF p \in 1..Len(s) THEN s[p] ELSE NUL

Streams(n) == UNION { [1..k -> Alphabet] : k \in 0..n }

\* The key codes _getch() returns in the model.
Keys == { 0, 200 }

(***************************************************************************)
(* The environment: tape, ptr, minaddr, maxaddr.                           *)
(***************************************************************************)
\* minaddr and maxaddr as cell indices for a tape of n cells.
minaddr == 0
maxaddr(n) == n - 1

\* ptroutofrange() with the upper comparison off by one.
ptroutofrange_OffByOne(n, p) == p < minaddr \/ p >= maxaddr(n)

\* bool ptroutofrange()
ptroutofrange(n, p) == p < minaddr \/ p > maxaddr(n)

\* The state the constructor leaves the tape in: calloc'ed cells.
FreshTape(t, n) == [a \in 0..(n - 1) |-> Zero(t)]

\* reset() with a loop that stops before maxaddr.
ResetTape_SkipLast(t, n, tp) ==
    [a \in DOMAIN tp |-> IF a >= minaddr /\ a < maxaddr(n) THEN Zero(t) ELSE tp[a]]

\* The tape after reset(): the loop from minaddr to maxaddr stores 0.
ResetTape(t, n, tp) ==
    [a \in DOMAIN tp |-> IF a >= minaddr /\ a <= maxaddr(n) THEN Zero(t) ELSE tp[a]]

\* The pointer after reset().
ResetPtr == minaddr

(***************************************************************************)
(* interpret(): the loop matcher scans.                                    *)
(***************************************************************************)
RECURSIVE SearchForward_FirstClose(_, _, _)
\* A forward scan that stops at the first ']', whatever '[' came before it.
SearchForward_FirstClose(s, p, count) ==
    IF CharAt(s, p) = NUL THEN 0
    ELSE IF s[p] = "]" THEN p
    ELSE SearchForward_FirstClose(s, p + 1, count)

RECURSIVE SearchBackward_FirstOpen(_, _, _)
\* A backward scan that stops at the first '[', whatever ']' came before it.
SearchBackward_FirstOpen(s, p, count) ==
    IF p < 1 THEN 0
    ELSE IF s[p] = "[" THEN p
    ELSE SearchBackward_FirstOpen(s, p - 1, count)

RECURSIVE SearchForward(_, _, _)
\* The scan of case '[': from position p with `count` loops unsolved;
\* the position of the matching ']', or 0 when the NUL is reached first.
SearchForward(s, p, count) ==
    IF CharAt(s, p) = NUL THEN 0
    ELSE IF s[p] = "[" THEN SearchForward(s, p + 1, count + 1)
    ELSE IF s[p] = "]" THEN
        IF count - 1 = 0 THEN p ELSE SearchForward(s, p + 1, count - 1)
    ELSE SearchForward(s, p + 1, count)

RECURSIVE SearchBackward(_, _, _)
\* The scan of case ']': from position p down to the start of the string;
\* the position of the matching '[', or 0 when the start is passed first.
SearchBackward(s, p, count) ==
    IF p < 1 THEN 0
    ELSE IF s[p] = "]" THEN SearchBackward(s, p - 1, count + 1)
    ELSE IF s[p] = "[" THEN
        IF count - 1 = 0 THEN p ELSE SearchBackward(s, p - 1, count - 1)
    ELSE SearchBackward(s, p - 1, count)

\* The diagnostics interpret() prints.
MsgWrite == "Access violation: attempt to write to an out-of-range address."
MsgRead == "Access violation: attempt to read from an out-of-range address."
MsgMissingClose == "Syntax error: unenclosed loop detected. Missing ']'."
MsgMissingOpen == "Syntax error: unenclosed loop detected. Missing '['."

(***************************************************************************)
(* interpret(): one iteration of the while loop on a configuration         *)
(*   c = [tape, ptr, codeptr, done, status, out, diag]                     *)
(* where done says that interpret() has returned (with `status`), out is   *)
(* what the instructions printed and diag the diagnostic printed last.     *)
(***************************************************************************)
\* A failure that prints the diagnostic and carries on with the loop.
Fail_Continue(c, msg) == [c EXCEPT !.diag = msg, !.codeptr = @ + 1]

\* A failure that also puts the pointer back at minaddr.
Fail_Rewinds(c, msg) ==
    [c EXCEPT !.done = TRUE, !.status = 1, !.diag = msg, !.ptr = minaddr]

\* printf(diagnostic); return 1;
Fail(c, msg) == [c EXCEPT !.done = TRUE, !.status = 1, !.diag = msg]

\* case '>' without its codeptr++.
CaseRight_Stays(c) == [c EXCEPT !.ptr = @ + 1]

\* case '>'
CaseRight(c) == [c EXCEPT !.ptr = @ + 1, !.codeptr = @ + 1]

\* case '<' that stops at minaddr.
CaseLeft_Clamp(c) ==
    [c EXCEPT !.ptr = IF @ > minaddr THEN @ - 1 ELSE @, !.codeptr = @ + 1]

\* case '<'
CaseLeft(c) == [c EXCEPT !.ptr = @ - 1, !.codeptr = @ + 1]

\* case '+'
CaseInc(n, c) ==
    IF ptroutofrange(n, c.ptr) THEN Fail(c, MsgWrite)
    ELSE [c EXCEPT !.tape[c.ptr] = Incr(@), !.codeptr = @ + 1]

\* case '-'
CaseDec(n, c) ==
    IF ptroutofrange(n, c.ptr) THEN Fail(c, MsgWrite)
    ELSE [c EXCEPT !.tape[c.ptr] = Decr(@), !.codeptr = @ + 1]

\* case '.'
CasePutChar(t, va, n, c) ==
    IF ptroutofrange(n, c.ptr) THEN Fail(c, MsgRead)
    ELSE [c EXCEPT !.out = @ \o FormatC(VarArgInt(t, va, c.tape[c.ptr])),
                   !.codeptr = @ + 1]

\* case ':'
CasePutNumber(t, va, n, c) ==
    IF ptroutofrange(n, c.ptr) THEN Fail(c, MsgRead)
    ELSE [c EXCEPT !.out = @ \o FormatD(VarArgInt(t, va, c.tape[c.ptr])),
                   !.codeptr = @ + 1]

\* case ',' with _getch() returning key
CaseGetChar(t, n, c, key) ==
    IF ptroutofrange(n, c.ptr) THEN Fail(c, MsgWrite)
    ELSE [c EXCEPT !.tape[c.ptr] = BytesOfInt(key, SizeOf(t)), !.codeptr = @ + 1]

\* case '[' that looks for the ']' only when the loop is to be skipped.
CaseOpen_Lazy(n, s, c) ==
    IF ptroutofrange(n, c.ptr) THEN Fail(c, MsgRead)
    ELSE IF ~IsZero(c.tape[c.ptr]) THEN [c EXCEPT !.codeptr = @ + 1]
    ELSE LET codesearchptr == SearchForward(s, c.codeptr + 1, 1)
         IN  IF codesearchptr = 0 THEN Fail(c, MsgMissingClose)
             ELSE [c EXCEPT !.codeptr = codesearchptr + 1]

\* case '['
CaseOpen(n, s, c) ==
    IF ptroutofrange(n, c.ptr) THEN Fail(c, MsgRead)
    ELSE LET codesearchptr == SearchForward(s, c.codeptr + 1, 1)
             hasloopmatch == codesearchptr # 0
             hasloopskip == hasloopmatch /\ IsZero(c.tape[c.ptr])
         IN  IF ~hasloopmatch THEN Fail(c, MsgMissingClose)
             ELSE IF hasloopskip THEN [c EXCEPT !.codeptr = codesearchptr + 1]
             ELSE [c EXCEPT !.codeptr = @ + 1]

\* case ']'
CaseClose(s, c) ==
    LET codesearchptr == SearchBackward(s, c.codeptr - 1, 1)
        hasloopmatch == codesearchptr # 0
    IN  IF ~hasloopmatch THEN Fail(c, MsgMissingOpen)
        ELSE [c EXCEPT !.codeptr = codesearchptr]

\* default
CaseDefault(c) == [c EXCEPT !.codeptr = @ + 1]

\* The while condition fails at the NUL: return 0.
LoopExit(c) == [c EXCEPT !.done = TRUE, !.status = 0]

\* One iteration of interpret()'s loop on the stream s, from c.
InterpretStep(t, va, n, s, c, key) ==
    LET ch == CharAt(s, c.codeptr)
    IN  CASE ch = NUL -> LoopExit(c)
          [] ch = ">" -> CaseRight(c)
          [] ch = "<" -> CaseLeft(c)
          [] ch = "+" -> CaseInc(n, c)
          [] ch = "-" -> CaseDec(n, c)
          [] ch = "." -> CasePutChar(t, va, n, c)
          [] ch = ":" -> CasePutNumber(t, va, n, c)
          [] ch = "," -> CaseGetChar(t, n, c, key)
          [] ch = "[" -> CaseOpen(n, s, c)
          [] ch = "]" -> CaseClose(s, c)
          [] OTHER -> CaseDefault(c)

\* An interpret() that starts from minaddr.
InterpretEntry_Rewind(tp, p) ==
    [tape |-> tp, ptr |-> minaddr, codeptr |-> 1, done |-> FALSE, status |-> 0,
     out |-> << >>, diag |-> ""]

\* The configuration interpret(code) starts from: codeptr = code; the tape
\* and ptr are the members as the caller left them.
InterpretEntry(tp, p) ==
    [tape |-> tp, ptr |-> p, codeptr |-> 1, done |-> FALSE, status |-> 0,
     out |-> << >>, diag |-> ""]

RECURSIVE InterpretRun(_, _, _, _, _, _, _)
\* interpret() followed for at most `fuel` iterations from c, its k-th
\* _getch() returning ks[k] (0 once ks is used up).
InterpretRun(t, va, n, s, c, ks, fuel) ==
    IF c.done \/ fuel = 0 THEN c
    ELSE LET reads == CharAt(s, c.codeptr) = "," /\ ~ptroutofrange(n, c.ptr)
             key == IF ks # << >> THEN Head(ks) ELSE 0
             rest == IF reads /\ ks # << >> THEN Tail(ks) ELSE ks
         IN  InterpretRun(t, va, n, s, InterpretStep(t, va, n, s, c, key),
                          rest, fuel - 1)

(***************************************************************************)
(* translate(): the text written to ccode.  Each sprintf or strcpy call    *)
(* contributes one piece [pre, num, post]: the text before a %d, the       *)
(* characters the %d printed, and the text after it (num and post empty    *)
(* for a call without %d).                                                 *)
(***************************************************************************)
Piece(str) == [pre |-> str, num |-> << >>, post |-> ""]

\* for (int i = 0; i < indentlevel; i++) sprintf(cptr, "\t");
Tabs(indentlevel) == [k \in 1..indentlevel |-> Piece("\t")]

\* sprintf(cptr, "%s *tape = (%s *)calloc(%d, sizeof(%s));\n", ...) up to the %d
AllocPre(t) ==
    CASE t = "char" -> "char *tape = (char *)calloc("
      [] t = "unsigned char" -> "unsigned char *tape = (unsigned char *)calloc("
      [] t = "short" -> "short *tape = (short *)calloc("
      [] t = "unsigned short" -> "unsigned short *tape = (unsigned short *)calloc("
      [] t = "int" -> "int *tape = (int *)calloc("
      [] t = "unsigned" -> "unsigned *tape = (unsigned *)calloc("
      [] t = "long long" -> "long long *tape = (long long *)calloc("
      [] OTHER -> "unsigned long long *tape = (unsigned long long *)calloc("

\* ... and after the %d
AllocPost(t) ==
    CASE t = "char" -> ", sizeof(char));\n"
      [] t = "unsigned char" -> ", sizeof(unsigned char));\n"
      [] t = "short" -> ", sizeof(short));\n"
      [] t = "unsigned short" -> ", sizeof(unsigned short));\n"
      [] t = "int" -> ", sizeof(int));\n"
      [] t = "unsigned" -> ", sizeof(unsigned));\n"
      [] t = "long long" -> ", sizeof(long long));\n"
      [] OTHER -> ", sizeof(unsigned long long));\n"

\* The header inclusions and the preparative code; indentlevel becomes 1.
\* The %d prints maxaddr - minaddr + 1, the capacity n.
Prologue(t, n) ==
    << Piece("#include <stdio.h>\n"),
       Piece("#include <stdlib.h>\n"),
       Piece("#include <stddef.h>\n"),
       Piece("#include \"conio.h\"\n"),
       Piece("\n") >>
    \o Tabs(0) \o << Piece("int main() {\n") >>
    \o Tabs(1) \o << Piece("\n") >>
    \o Tabs(1)
    \o << [pre |-> AllocPre(DECLTYPE_STR(t)),
           num |-> FormatD(maxaddr(n) - minaddr + 1),
           post |-> AllocPost(DECLTYPE_STR(t))] >>
    \o Tabs(1) \o << Piece("ptrdiff_t i = 0;\n"), Piece("\n") >>

\* A collating loop that breaks at once, before it consumes a character.
Collate_Breaks(s, p, total, up, down) == [total |-> total, bfsearchptr |-> p]

RECURSIVE Collate(_, _, _, _, _)
\* The collating loop of a run: from position p with `total` accumulated
\* in a storage_t, counting `up` up and `down` down; the total and the
\* position of the intervening character.
Collate(s, p, total, up, down) ==
    IF CharAt(s, p) = up THEN Collate(s, p + 1, Incr(total), up, down)
    ELSE IF CharAt(s, p) = down THEN Collate(s, p + 1, Decr(total), up, down)
    ELSE [total |-> total, bfsearchptr |-> p]

\* total > 0, total == 1, total < 0, total == -1 for a storage_t total.
IsPositive(t, v) == ~IsZero(v) /\ ~IsNegative(t, v)
IsOne(v) == v = Incr([k \in 1..Len(v) |-> 0])
IsMinusOne(t, v) == IsNegative(t, v) /\ \A k \in 1..Len(v) : v[k] = 255

\* The int a %d reads for the argument -total: the negation is computed
\* in int for the promoted types and in storage_t for the others.
VarArgIntOfNegation(t, va, v) ==
    IF SizeOf(t) = 8 THEN VarArgInt(t, va, Negated(v))
    ELSE IntOfBytes(Negated(Widen4(t, v)))

\* The statement printed for a collated total: inc and dec are the terse
\* forms, add and sub the texts before the %d, close the text after it.
Collated(t, va, total, inc, dec, add, sub, close) ==
    IF IsPositive(t, total) THEN
        IF IsOne(total) THEN << Piece(inc) >>
        ELSE << [pre |-> add, num |-> FormatD(VarArgInt(t, va, total)), post |-> close] >>
    ELSE IF IsNegative(t, total) THEN
        IF IsMinusOne(t, total) THEN << Piece(dec) >>
        ELSE << [pre |-> sub, num |-> FormatD(VarArgIntOfNegation(t, va, total)),
                 post |-> close] >>
    ELSE << >>

\* case '>': case '<': the pieces written for the run that starts at p.
MovePieces(t, va, s, p, indentlevel) ==
    LET run == Collate(s, p, Zero(t), ">", "<")
    IN  Tabs(indentlevel)
        \o Collated(t, va, run.total, "i++;", "i--;", "i += ", "i -= ", ";")
        \o << IF CharAt(s, run.bfsearchptr) \in { "+", "-" }
              THEN Piece(" ") ELSE Piece("\n") >>

\* case '+': case '-': the pieces written for the run that starts at p.
ChangePieces(t, va, s, p, indentlevel) ==
    LET run == Collate(s, p, Zero(t), "+", "-")
    IN  (IF p = 1 \/ CharAt(s, p - 1) \notin { ">", "<" }
         THEN Tabs(indentlevel) ELSE << >>)
        \o Collated(t, va, run.total, "tape[i]++;\n", "tape[i]--;\n",
                    "tape[i] += ", "tape[i] -= ", ";\n")

\* case '.': the strcpy copies its literal as it is.
PutCharPieces(indentlevel) ==
    Tabs(indentlevel) \o << Piece("printf(\"%%c\", tape[i]);\n") >>

\* case ','
GetCharPieces(indentlevel) ==
    Tabs(indentlevel) \o << Piece("tape[i] = _getch();\n") >>

\* case '[' (indentlevel is incremented after the tabs are written)
OpenPieces(indentlevel) ==
    Tabs(indentlevel) \o << Piece("while (tape[i] != 0) {\n") >>

\* case ']' (indentlevel is decremented before the tabs are written)
ClosePieces(indentlevel) ==
    Tabs(indentlevel - 1) \o << Piece("}\n") >>

\* The ending of the C program; indentlevel is decremented before the
\* last brace.
Epilogue(indentlevel) ==
    Tabs(indentlevel) \o << Piece("\n") >>
    \o Tabs(indentlevel) \o << Piece("free(tape);\n") >>
    \o Tabs(indentlevel) \o << Piece("_getch();\n") >>
    \o Tabs(indentlevel) \o << Piece("\n") >>
    \o Tabs(indentlevel) \o << Piece("return 0;\n") >>
    \o Tabs(indentlevel) \o << Piece("\n") >>
    \o Tabs(indentlevel - 1) \o << Piece("}\n") >>

\* A status that takes a residual depth below 0 for success.
TranslateStatus_Lenient(indentlevel) == IF indentlevel - 1 <= 0 THEN 0 ELSE 1

\* return indentlevel == 0 ? 0 : 1, after the decrement of the epilogue.
TranslateStatus(indentlevel) == IF indentlevel - 1 = 0 THEN 0 ELSE 1

(***************************************************************************)
(* The emitted program, as a C compiler reads the text: the meaning of     *)
(* each statement translate() can write.                                   *)
(***************************************************************************)
\* White space, preprocessor lines and the head of main: nothing to execute.
Blank ==
    { "\t", " ", "\n", "#include <stdio.h>\n", "#include <stdlib.h>\n",
      "#include <stddef.h>\n", "#include \"conio.h\"\n", "int main() {\n" }

WhileText == "while (tape[i] != 0) {\n"
BraceText == "}\n"

\* The position of the first statement of cc at or after p.
RECURSIVE NextStatement(_, _)
NextStatement(cc, p) ==
    IF p > Len(cc) THEN p
    ELSE IF cc[p].pre \in Blank THEN NextStatement(cc, p + 1)
    ELSE p

RECURSIVE ParseNat(_, _)
\* The number a digit string denotes, read from the left onto acc.
ParseNat(ds, acc) ==
    IF ds = << >> THEN acc ELSE ParseNat(Tail(ds), 10 * acc + (Head(ds) - 48))

\* The value of an integer literal with an optional minus sign.
ParseInt(ds) ==
    IF ds # << >> /\ Head(ds) = 45 THEN 0 - ParseNat(Tail(ds), 0)
    ELSE ParseNat(ds, 0)

RECURSIVE CarryInto(_, _, _)
\* The carry into byte k of the sum of the byte strings a and b.
CarryInto(a, b, k) ==
    IF k = 1 THEN 0 ELSE (a[k - 1] + b[k - 1] + CarryInto(a, b, k - 1)) \div 256

\* a + b modulo 2^bits.
Sum(a, b) == [k \in 1..Len(a) |-> (a[k] + b[k] + CarryInto(a, b, k)) % 256]

\* The element type the allocation statement of cc names.
ElementType(cc) ==
    CHOOSE t \in StorageTypes : \E k \in 1..Len(cc) : cc[k].pre = AllocPre(t)

\* i after the statement st, from i.
MoveEffect(st, i) ==
    CASE st.pre = "i++;" -> i + 1
      [] st.pre = "i--;" -> i - 1
      [] st.pre = "i += " -> i + ParseInt(st.num)
      [] st.pre = "i -= " -> i - ParseInt(st.num)
      [] OTHER -> i

\* tape[i] after the statement st, from the bytes v.
ChangeEffect(st, v) ==
    CASE st.pre = "tape[i]++;\n" -> Incr(v)
      [] st.pre = "tape[i]--;\n" -> Decr(v)
      [] st.pre = "tape[i] += " -> Sum(v, BytesOfInt(ParseInt(st.num), Len(v)))
      [] st.pre = "tape[i] -= " -> Sum(v, Negated(BytesOfInt(ParseInt(st.num), Len(v))))
      [] OTHER -> v

\* What the printf statement st prints for a cell of type t with bytes v:
\* in a format, %% prints a percent sign and %c the argument as a character.
PrintfEffect(st, t, v) ==
    CASE st.pre = "printf(\"%%c\", tape[i]);\n" -> << 37, 99 >>
      [] st.pre = "printf(\"%c\", tape[i]);\n" -> FormatC(IntOfBytes(Widen4(t, v)))
      [] OTHER -> << >>

MoveTexts == { "i++;", "i--;", "i += ", "i -= " }
ChangeTexts == { "tape[i]++;\n", "tape[i]--;\n", "tape[i] += ", "tape[i] -= " }
PrintfTexts == { "printf(\"%%c\", tape[i]);\n", "printf(\"%c\", tape[i]);\n" }

\* The nesting depth after the pieces 1..k of cc.
BraceDepth(cc, k) ==
    Cardinality({ j \in 1..k : cc[j].pre \in { "int main() {\n", WhileText } })
      - Cardinality({ j \in 1..k : cc[j].pre = BraceText })

\* The text is a program: the brace of main is closed by the last piece
\* and by no piece before it.
Compiles(cc) ==
    /\ \E k \in 1..Len(cc) : cc[k].pre = "int main() {\n"
    /\ BraceDepth(cc, Len(cc)) = 0
    /\ \A k \in 1..(Len(cc) - 1) :
          (\E j \in 1..k : cc[j].pre = "int main() {\n") => BraceDepth(cc, k) > 0

\* The brace that closes the while at p, and the while the brace at p closes.
ClosingBrace(cc, p) ==
    CHOOSE q \in (p + 1)..Len(cc) :
        /\ BraceDepth(cc, q) = BraceDepth(cc, p) - 1
        /\ \A r \in (p + 1)..(q - 1) : BraceDepth(cc, r) >= BraceDepth(cc, p)
OpeningWhile(cc, p) ==
    CHOOSE q \in 1..(p - 1) :
        /\ BraceDepth(cc, q) = BraceDepth(cc, p) + 1
        /\ cc[q].pre = WhileText
        /\ \A r \in (q + 1)..(p - 1) : BraceDepth(cc, r) >= BraceDepth(cc, q)

(***************************************************************************)
(* State.                                                                  *)
(***************************************************************************)
VARIABLES
    storage,    \* the template argument storage_t
    vaword,     \* the word of a 64-bit variadic argument an int read sees
    tapesize,   \* the constructor argument
    tape,       \* the cells, by index
    ptr,        \* this->ptr, as a cell index
    pc,         \* where the caller is: "constructed", "interpret" (inside
                \* the call), "returned" (from interpret) or "reset"
    code,       \* interpret(): the argument
    codeptr,    \* interpret(): the position in code
    status,     \* the value the last interpret() returned (-1: none yet)
    diag,       \* the diagnostic the current or last interpret() printed
    out,        \* what the instructions of that call printed
    trace,      \* the positions whose instruction that call executed
    keys,       \* the key codes that call read
    entry,      \* tape and ptr when the current or last operation began
    prev,       \* the call before this one, when nothing came in between
    fed,        \* instruction characters handed to interpret() so far
    bfcode,     \* translate(): the source argument
    bfptr,      \* translate(): the position in bfcode
    ccode,      \* translate(): the pieces written to the target so far
    indentlevel,\* translate(): the indentation level
    tstatus,    \* the value the last translate() returned (-1: none yet)
    xtape,      \* the emitted program: its tape
    xi,         \* the emitted program: its index variable i
    xpos,       \* the emitted program: the statement about to execute
    xout,       \* the emitted program: what it printed
    xkeys,      \* the emitted program: the keys its tape[i] = _getch() read
    xsteps,     \* the emitted program: statements of the body executed
    front,      \* xlbftranslator's main: its arguments, position and effects
    console     \* xlbfconsole's main: its position and code buffer

envvars == << storage, vaword, tapesize, tape, ptr >>
callvars == << pc, code, codeptr, status, diag, out, trace, keys, entry, prev, fed >>
trvars == << bfcode, bfptr, ccode, indentlevel, tstatus >>
xvars == << xtape, xi, xpos, xout, xkeys, xsteps >>
appvars == << front, console >>
vars == << envvars, callvars, trvars, xvars, appvars >>

\* The running call as a configuration.
Config ==
    [tape |-> tape, ptr |-> ptr, codeptr |-> codeptr, done |-> pc # "interpret",
     status |-> status, out |-> out, diag |-> diag]

\* No call is running.
Idle == pc \in { "constructed", "returned", "reset", "translated" }

\* The record of a call, and the record that stands for no call.
CallRecord == [valid |-> TRUE, code |-> code, entry |-> entry, keys |-> keys,
               out |-> out, status |-> status]
NoCall == [valid |-> FALSE, code |-> << >>, entry |-> entry, keys |-> << >>,
           out |-> << >>, status |-> -1]

\* xlbftranslator's main() has not started.
FrontIdle ==
    [at |-> "idle", argc |-> 0, memsize |-> 0, srcok |-> FALSE, dstok |-> FALSE,
     file |-> << >>, err |-> << >>, exit |-> -1, filesize |-> 0, ccodesize |-> 0,
     copied |-> FALSE, translated |-> FALSE, written |-> << >>]

\* xlbfconsole's main() has not started.
ConsoleIdle ==
    [at |-> "idle", codebuffer |-> << >>, breakon |-> "", round |-> 0]

(***************************************************************************)
(* Construction.                                                           *)
(***************************************************************************)
\* The environments the behaviours of Spec follow: the instantiation of the
\* two applications (xl_brainfuck_env<int>) and the narrowest unsigned type,
\* whose cells wrap soonest.  SpecTypes follows every storage type.
CallerTypes == { "int", "unsigned char" }

\* xl_brainfuck_env<storage>(tapesize) for a storage type among `types` and
\* a capacity among `sizes`.  The constructor has no failing path: it
\* returns an environment for every size_t, 0 included (calloc(0, ...)
\* giving a block of no cells, as the C libraries that provide conio.h do).
ConstructSized(types, sizes) ==
    /\ storage \in types
    /\ vaword \in (IF SizeOf(storage) = 8 THEN {1, 5} ELSE {1})
    /\ tapesize \in sizes
    /\ tape = FreshTape(storage, tapesize)
    /\ ptr = minaddr
    /\ pc = "constructed"
    /\ code = << >>
    /\ codeptr = 1
    /\ status = -1
    /\ diag = ""
    /\ out = << >>
    /\ trace = << >>
    /\ keys = << >>
    /\ entry = [tape |-> tape, ptr |-> ptr]
    /\ prev = NoCall
    /\ fed = 0
    /\ bfcode = << >>
    /\ bfptr = 1
    /\ ccode = << >>
    /\ indentlevel = 0
    /\ tstatus = -1
    /\ xtape = << >>
    /\ xi = 0
    /\ xpos = 1
    /\ xout = << >>
    /\ xkeys = << >>
    /\ xsteps = 0
    /\ front = FrontIdle
    /\ console = ConsoleIdle

\* The environments of positive capacity.
Construct(types) == ConstructSized(types, 1..MaxTape)

Init == Construct(CallerTypes)

(***************************************************************************)
(* interpret()                                                             *)
(***************************************************************************)
\* The caller invokes interpret(s).
Interpret(s) ==
    /\ Idle
    /\ pc' = "interpret"
    /\ code' = s
    /\ LET c == InterpretEntry(tape, ptr)
       IN  /\ tape' = c.tape
           /\ ptr' = c.ptr
           /\ codeptr' = c.codeptr
           /\ diag' = c.diag
           /\ out' = c.out
    /\ trace' = << >>
    /\ keys' = << >>
    /\ entry' = [tape |-> tape, ptr |-> ptr]
    /\ prev' = IF pc = "returned" THEN CallRecord ELSE [NoCall EXCEPT !.entry = entry']
    /\ fed' = fed + Len(s)
    /\ UNCHANGED << storage, vaword, tapesize, status, trvars, xvars, appvars >>

\* The running call takes the configuration c.
Become(c) ==
    /\ tape' = c.tape
    /\ ptr' = c.ptr
    /\ codeptr' = c.codeptr
    /\ pc' = IF c.done THEN "returned" ELSE "interpret"
    /\ status' = IF c.done THEN c.status ELSE status
    /\ out' = c.out
    /\ diag' = c.diag
    /\ UNCHANGED << storage, vaword, tapesize, code, entry, prev, fed, trvars, xvars, appvars >>

\* The loop of the running call is at the character ch.
At(ch) ==
    /\ pc = "interpret"
    /\ Len(trace) < MaxSteps
    /\ CharAt(code, codeptr) = ch

\* One iteration of the loop, a _getch() in it returning key.
Iterate(key) ==
    /\ Become(InterpretStep(storage, vaword, tapesize, code, Config, key))
    /\ trace' = Append(trace, codeptr)

StepRight ==
    /\ At(">")
    /\ Iterate(0)
    /\ keys' = keys

StepLeft ==
    /\ At("<")
    /\ Iterate(0)
    /\ keys' = keys

StepInc ==
    /\ At("+")
    /\ Iterate(0)
    /\ keys' = keys

StepDec ==
    /\ At("-")
    /\ Iterate(0)
    /\ keys' = keys

StepPutChar ==
    /\ At(".")
    /\ Iterate(0)
    /\ keys' = keys

StepPutNumber ==
    /\ At(":")
    /\ Iterate(0)
    /\ keys' = keys

\* _getch() is called only when the bounds check has passed.
StepGetChar ==
    /\ At(",")
    /\ IF ptroutofrange(tapesize, ptr)
       THEN Iterate(0) /\ keys' = keys
       ELSE \E key \in Keys : Iterate(key) /\ keys' = Append(keys, key)

StepOpen ==
    /\ At("[")
    /\ Iterate(0)
    /\ keys' = keys

StepClose ==
    /\ At("]")
    /\ Iterate(0)
    /\ keys' = keys

StepDefault ==
    /\ At("x")
    /\ Iterate(0)
    /\ keys' = keys

\* The loop ends at the NUL and interpret() returns 0.
Return ==
    /\ pc = "interpret"
    /\ CharAt(code, codeptr) = NUL
    /\ Become(InterpretStep(storage, vaword, tapesize, code, Config, 0))
    /\ UNCHANGED << trace, keys >>

(***************************************************************************)
(* reset()                                                                 *)
(***************************************************************************)
Reset ==
    /\ Idle
    /\ tape' = ResetTape(storage, tapesize, tape)
    /\ ptr' = ResetPtr
    /\ pc' = "reset"
    /\ entry' = [tape |-> tape, ptr |-> ptr]
    /\ UNCHANGED << storage, vaword, tapesize, code, codeptr, status, diag, out,
                    trace, keys, prev, fed, trvars, xvars, appvars >>

Next ==
    \/ Idle /\ \E s \in Streams(MaxLen - fed) : Interpret(s)
    \/ StepRight
    \/ StepLeft
    \/ StepInc
    \/ StepDec
    \/ StepPutChar
    \/ StepPutNumber
    \/ StepGetChar
    \/ StepOpen
    \/ StepClose
    \/ StepDefault
    \/ Return
    \/ Reset

Spec == Init /\ [][Next]_vars

(***************************************************************************)
(* Every storage type, one interpret() call per environment.               *)
(***************************************************************************)
InitTypes == Construct(StorageTypes)

NextTypes ==
    \/ pc = "constructed" /\ \E s \in Streams(MaxLen) : Interpret(s)
    \/ StepRight
    \/ StepLeft
    \/ StepInc
    \/ StepDec
    \/ StepPutChar
    \/ StepPutNumber
    \/ StepGetChar
    \/ StepOpen
    \/ StepClose
    \/ StepDefault
    \/ Return

SpecTypes == InitTypes /\ [][NextTypes]_vars

(***************************************************************************)
(* translate()                                                             *)
(***************************************************************************)
\* The caller invokes translate(s, ccode): the prologue is written.
Translate(s) ==
    /\ Idle
    /\ pc' = "translate"
    /\ bfcode' = s
    /\ bfptr' = 1
    /\ ccode' = Prologue(storage, tapesize)
    /\ indentlevel' = 1
    /\ UNCHANGED << envvars, code, codeptr, status, diag, out, trace, keys, entry,
                    prev, fed, tstatus, xvars, appvars >>

\* The main loop of the running translate() is at a character among chs.
TranslateAt(chs) == pc = "translate" /\ CharAt(bfcode, bfptr) \in chs

\* An iteration of translate() that also moves the cursor back to the start
\* of the tape.
TranslateFrame_Rewinds ==
    /\ ptr' = minaddr
    /\ UNCHANGED << storage, vaword, tapesize, tape, pc, code, codeptr, status,
                    diag, out, trace, keys, entry, prev, fed, bfcode, tstatus,
                    xvars, appvars >>

\* What an iteration of the main loop leaves alone.
TranslateFrame ==
    UNCHANGED << envvars, pc, code, codeptr, status, diag, out, trace, keys, entry,
                 prev, fed, bfcode, tstatus, xvars, appvars >>

TranslateMove ==
    /\ TranslateAt({ ">", "<" })
    /\ ccode' = ccode \o MovePieces(storage, vaword, bfcode, bfptr, indentlevel)
    /\ bfptr' = Collate(bfcode, bfptr, Zero(storage), ">", "<").bfsearchptr
    /\ UNCHANGED indentlevel
    /\ TranslateFrame

TranslateChange ==
    /\ TranslateAt({ "+", "-" })
    /\ ccode' = ccode \o ChangePieces(storage, vaword, bfcode, bfptr, indentlevel)
    /\ bfptr' = Collate(bfcode, bfptr, Zero(storage), "+", "-").bfsearchptr
    /\ UNCHANGED indentlevel
    /\ TranslateFrame

TranslatePutChar ==
    /\ TranslateAt({ "." })
    /\ ccode' = ccode \o PutCharPieces(indentlevel)
    /\ bfptr' = bfptr + 1
    /\ UNCHANGED indentlevel
    /\ TranslateFrame

TranslateGetChar ==
    /\ TranslateAt({ "," })
    /\ ccode' = ccode \o GetCharPieces(indentlevel)
    /\ bfptr' = bfptr + 1
    /\ UNCHANGED indentlevel
    /\ TranslateFrame

TranslateOpen ==
    /\ TranslateAt({ "[" })
    /\ ccode' = ccode \o OpenPieces(indentlevel)
    /\ indentlevel' = indentlevel + 1
    /\ bfptr' = bfptr + 1
    /\ TranslateFrame

TranslateClose ==
    /\ TranslateAt({ "]" })
    /\ ccode' = ccode \o ClosePieces(indentlevel)
    /\ indentlevel' = indentlevel - 1
    /\ bfptr' = bfptr + 1
    /\ TranslateFrame

TranslateDefault ==
    /\ TranslateAt(Alphabet \ { ">", "<", "+", "-", ".", ",", "[", "]" })
    /\ bfptr' = bfptr + 1
    /\ UNCHANGED << ccode, indentlevel >>
    /\ TranslateFrame

\* The main loop ends at the NUL: the epilogue is written and translate()
\* returns.
TranslateReturn ==
    /\ TranslateAt({ NUL })
    /\ ccode' = ccode \o Epilogue(indentlevel)
    /\ indentlevel' = indentlevel - 1
    /\ tstatus' = TranslateStatus(indentlevel)
    /\ pc' = "translated"
    /\ UNCHANGED << envvars, code, codeptr, status, diag, out, trace, keys, entry,
                    prev, fed, bfcode, bfptr, xvars, appvars >>

TranslateNext ==
    \/ pc = "constructed" /\ \E s \in Streams(MaxLen) : Translate(s)
    \/ TranslateMove
    \/ TranslateChange
    \/ TranslatePutChar
    \/ TranslateGetChar
    \/ TranslateOpen
    \/ TranslateClose
    \/ TranslateDefault
    \/ TranslateReturn

SpecTranslate == InitTypes /\ [][TranslateNext]_vars

(***************************************************************************)
(* The emitted program, compiled and run.                                  *)
(***************************************************************************)
\* What a statement of the program leaves alone.
ProgramFrame == UNCHANGED << envvars, code, codeptr, status, diag, out, trace, keys,
                             entry, prev, fed, trvars, appvars >>

\* The statement about to execute has one of the texts.
ProgramAt(texts) ==
    /\ pc = "running"
    /\ xpos <= Len(ccode)
    /\ ccode[xpos].pre \in texts

\* Control passes to the statement after position p.
Goto(p) == xpos' = NextStatement(ccode, p)

\* tape[i] designates an element of the allocated block.
Allocated == xi \in DOMAIN xtape

\* A statement of the loop body executes.
BodyStep == xsteps < MaxSteps /\ xsteps' = xsteps + 1

\* The program that translate() wrote is compiled and started.
RunProgram ==
    /\ pc = "translated"
    /\ Compiles(ccode)
    /\ pc' = "running"
    /\ Goto(1)
    /\ xtape' = << >>
    /\ xi' = 0
    /\ xout' = << >>
    /\ xkeys' = << >>
    /\ xsteps' = 0
    /\ ProgramFrame

\* T *tape = (T *)calloc(n, sizeof(T));
ProgramAlloc ==
    /\ ProgramAt({ AllocPre(t) : t \in StorageTypes })
    /\ xtape' = [a \in 0..(ParseInt(ccode[xpos].num) - 1) |-> Zero(ElementType(ccode))]
    /\ Goto(xpos + 1)
    /\ UNCHANGED << pc, xi, xout, xkeys, xsteps >>
    /\ ProgramFrame

\* ptrdiff_t i = 0;
ProgramIndex ==
    /\ ProgramAt({ "ptrdiff_t i = 0;\n" })
    /\ xi' = 0
    /\ Goto(xpos + 1)
    /\ UNCHANGED << pc, xtape, xout, xkeys, xsteps >>
    /\ ProgramFrame

\* i++; i--; i += n; i -= n;
ProgramMove ==
    /\ ProgramAt(MoveTexts)
    /\ BodyStep
    /\ xi' = MoveEffect(ccode[xpos], xi)
    /\ Goto(xpos + 1)
    /\ UNCHANGED << pc, xtape, xout, xkeys >>
    /\ ProgramFrame

\* A statement that uses tape[i] while i is outside the block: the
\* behaviour of the program is undefined from here on.
ProgramUndefined ==
    /\ ProgramAt(ChangeTexts \cup PrintfTexts \cup { "tape[i] = _getch();\n", WhileText })
    /\ ~Allocated
    /\ pc' = "undefined"
    /\ UNCHANGED xvars
    /\ ProgramFrame

\* tape[i]++; tape[i]--; tape[i] += n; tape[i] -= n;
ProgramChange ==
    /\ ProgramAt(ChangeTexts)
    /\ Allocated
    /\ BodyStep
    /\ xtape' = [xtape EXCEPT ![xi] = ChangeEffect(ccode[xpos], @)]
    /\ Goto(xpos + 1)
    /\ UNCHANGED << pc, xi, xout, xkeys >>
    /\ ProgramFrame

\* printf(format, tape[i]);
ProgramPrintf ==
    /\ ProgramAt(PrintfTexts)
    /\ Allocated
    /\ BodyStep
    /\ xout' = xout \o PrintfEffect(ccode[xpos], ElementType(ccode), xtape[xi])
    /\ Goto(xpos + 1)
    /\ UNCHANGED << pc, xtape, xi, xkeys >>
    /\ ProgramFrame

\* tape[i] = _getch();
ProgramGetch ==
    /\ ProgramAt({ "tape[i] = _getch();\n" })
    /\ Allocated
    /\ BodyStep
    /\ \E key \in Keys :
          /\ xtape' = [xtape EXCEPT ![xi] = BytesOfInt(key, Len(@))]
          /\ xkeys' = Append(xkeys, key)
    /\ Goto(xpos + 1)
    /\ UNCHANGED << pc, xi, xout >>
    /\ ProgramFrame

\* while (tape[i] != 0) {
ProgramWhile ==
    /\ ProgramAt({ WhileText })
    /\ Allocated
    /\ BodyStep
    /\ IF IsZero(xtape[xi]) THEN Goto(ClosingBrace(ccode, xpos) + 1)
       ELSE Goto(xpos + 1)
    /\ UNCHANGED << pc, xtape, xi, xout, xkeys >>
    /\ ProgramFrame

\* } at the end of a while block: back to the test.
ProgramBrace ==
    /\ ProgramAt({ BraceText })
    /\ BodyStep
    /\ xpos' = OpeningWhile(ccode, xpos)
    /\ UNCHANGED << pc, xtape, xi, xout, xkeys >>
    /\ ProgramFrame

\* free(tape); and the _getch(); that waits for a key
ProgramEnding ==
    /\ ProgramAt({ "free(tape);\n", "_getch();\n" })
    /\ Goto(xpos + 1)
    /\ UNCHANGED << pc, xtape, xi, xout, xkeys, xsteps >>
    /\ ProgramFrame

\* return 0;
ProgramReturn ==
    /\ ProgramAt({ "return 0;\n" })
    /\ pc' = "exited"
    /\ UNCHANGED xvars
    /\ ProgramFrame

\* translate() on a fresh environment, and the program it wrote.
InitRoundTrip == Construct(StorageTypes)

RoundTripNext ==
    \/ TranslateNext
    \/ RunProgram
    \/ ProgramAlloc
    \/ ProgramIndex
    \/ ProgramMove
    \/ ProgramUndefined
    \/ ProgramChange
    \/ ProgramPrintf
    \/ ProgramGetch
    \/ ProgramWhile
    \/ ProgramBrace
    \/ ProgramEnding
    \/ ProgramReturn

SpecRoundTrip == InitRoundTrip /\ [][RoundTripNext]_vars


(***************************************************************************)
(* Vocabulary of the properties.                                           *)
(***************************************************************************)
\* The instructions that read or write the cell under the cursor.
Accessing == { "+", "-", ".", ":", ",", "[" }

AccessViolation == { MsgWrite, MsgRead }
SyntaxError == { MsgMissingClose, MsgMissingOpen }

\* The cursor addresses a cell of the tape.
InBounds == ptr \in 0..(tapesize - 1)

\* This step executes the instruction at codeptr.
Executes == pc = "interpret" /\ trace' = Append(trace, codeptr)

\* The number of ch among s[a..b].
Occurs(s, ch, a, b) == Cardinality({ k \in a..b : k \in 1..Len(s) /\ s[k] = ch })

\* The '[' at i has a structurally matching ']' later in s.
HasClose(s, i) ==
    \E j \in (i + 1)..Len(s) :
        Occurs(s, "]", i + 1, j) = Occurs(s, "[", i + 1, j) + 1

\* The ']' at j has a structurally matching '[' earlier in s.
HasOpen(s, j) ==
    \E i \in 1..(j - 1) :
        Occurs(s, "[", i, j - 1) = Occurs(s, "]", i, j - 1) + 1

\* Every bracket of s has its structural match.
Balanced(s) ==
    /\ \A k \in 1..Len(s) : Occurs(s, "]", 1, k) <= Occurs(s, "[", 1, k)
    /\ Occurs(s, "]", 1, Len(s)) = Occurs(s, "[", 1, Len(s))

\* How many of the instructions the call has executed are ch.
Executed(ch) == Cardinality({ k \in 1..Len(trace) : CharAt(code, trace[k]) = ch })

\* The environment as the constructor leaves it.
Fresh(e) == e.tape = FreshTape(storage, tapesize) /\ e.ptr = 0

(***************************************************************************)
(* C3.  An instruction among + - . : , [ executed with the cursor outside  *)
(* [0, N-1] makes interpret() return nonzero with an access violation at   *)
(* that instruction, and no access violation is reported while the cursor  *)
(* is inside [0, N-1].                                                     *)
(***************************************************************************)
C3_AccessViolation ==
    [][ Executes =>
          /\ (CharAt(code, codeptr) \in Accessing /\ ~InBounds) =>
                /\ pc' = "returned"
                /\ status' # 0
                /\ diag' \in AccessViolation
                /\ codeptr' = codeptr
          /\ InBounds => diag' \notin AccessViolation ]_vars

\* N '>' followed by '+' on a fresh environment of N = 2 cells has failed.
C3_Witness ==
    /\ pc = "returned"
    /\ tapesize = 2
    /\ Fresh(entry)
    /\ code = << ">", ">", "+" >>
    /\ ptr = 2
    /\ status = 1
    /\ diag = MsgWrite

(***************************************************************************)
(* C4.  '>' and '<' never fail and never clamp: throughout a call the      *)
(* cursor is its value at entry plus the number of '>' executed minus the  *)
(* number of '<' executed, and a call never fails at a '>' or '<'.         *)
(***************************************************************************)
C4_MoveNeverClamps ==
    /\ pc \in { "interpret", "returned" } =>
          ptr = entry.ptr + Executed(">") - Executed("<")
    /\ (pc = "returned" /\ status # 0) => CharAt(code, codeptr) \notin { ">", "<" }

\* "<>+" on a fresh environment has succeeded and incremented cell 0.
C4_Witness ==
    /\ pc = "returned"
    /\ Fresh(entry)
    /\ code = << "<", ">", "+" >>
    /\ status = 0
    /\ ptr = 0
    /\ tape[0] = Incr(Zero(storage))

(***************************************************************************)
(* C5.  A '[' executed in bounds that has no structurally matching ']'     *)
(* makes interpret() return the "Missing ']'" syntax error at that '[',    *)
(* whatever the cell holds, with nothing printed by the instruction and    *)
(* tape, cursor and position left as they were.                            *)
(***************************************************************************)
C5_UnmatchedOpen ==
    [][ ( /\ Executes
          /\ CharAt(code, codeptr) = "["
          /\ InBounds
          /\ ~HasClose(code, codeptr) ) =>
          /\ pc' = "returned"
          /\ status' # 0
          /\ diag' = MsgMissingClose
          /\ out' = out
          /\ codeptr' = codeptr
          /\ tape' = tape
          /\ ptr' = ptr ]_vars

\* "+[+" has failed at its '[' with the cell holding 1.
C5_Witness ==
    /\ pc = "returned"
    /\ code = << "+", "[", "+" >>
    /\ Fresh(entry)
    /\ codeptr = 2
    /\ status = 1
    /\ diag = MsgMissingClose
    /\ tape[0] = Incr(Zero(storage))
    /\ trace = << 1, 2 >>

(***************************************************************************)
(* C6.  interpret() halts at the first error: an instruction that raises   *)
(* an access violation or a syntax error makes the call return nonzero,    *)
(* an instruction that raises none does not end the call, nothing is       *)
(* executed after the return, and the call returns 0 only at the end of    *)
(* the stream with no diagnostic printed.                                  *)
(***************************************************************************)
\* The instruction at codeptr raises an error in the current state.
Raises ==
    LET ch == CharAt(code, codeptr)
    IN  \/ ch \in Accessing /\ ~InBounds
        \/ ch = "[" /\ InBounds /\ ~HasClose(code, codeptr)
        \/ ch = "]" /\ ~HasOpen(code, codeptr)

C6_HaltsAtFirstError ==
    [][ /\ (Executes /\ Raises) =>
              pc' = "returned" /\ status' # 0 /\ diag' \in AccessViolation \cup SyntaxError
        /\ (Executes /\ ~Raises) => pc' = "interpret" /\ diag' = ""
        /\ (pc = "returned" /\ pc' # "interpret") =>
              trace' = trace /\ out' = out /\ codeptr' = codeptr
        /\ (pc = "interpret" /\ pc' = "returned" /\ status' = 0) =>
              CharAt(code, codeptr) = NUL /\ diag' = "" ]_vars

\* "<++" has returned 1 at its first '+', the second never executed.
C6_Witness ==
    /\ pc = "returned"
    /\ code = << "<", "+", "+" >>
    /\ status = 1
    /\ codeptr = 2
    /\ trace = << 1, 2 >>

(***************************************************************************)
(* C7.  After reset() every cell is 0 and the cursor is at index 0, from   *)
(* whatever state reset() was called in; a second reset() changes nothing. *)
(***************************************************************************)
C7_ResetZeroes ==
    pc = "reset" =>
        /\ DOMAIN tape = 0..(tapesize - 1)
        /\ \A a \in 0..(tapesize - 1) : IsZero(tape[a])
        /\ ptr = 0
        /\ ResetTape(storage, tapesize, tape) = tape
        /\ ResetPtr = ptr

\* reset() has run after a failed call that left a nonzero cell and the
\* cursor out of range.
C7_Witness ==
    /\ pc = "reset"
    /\ status = 1
    /\ ~(entry.ptr \in 0..(tapesize - 1))
    /\ ~IsZero(entry.tape[0])
    /\ IsZero(tape[0])
    /\ ptr = 0

(***************************************************************************)
(* C8.  Tape and cursor persist from one interpret() call to the next:     *)
(* when a call of a balanced stream a has returned 0 and the next call, of *)
(* a balanced stream b, has returned, then tape, cursor, output and status *)
(* are those of one interpret() of a followed by b from the state the      *)
(* first call began in, reading the same keys.                             *)
(***************************************************************************)
C8_CallsCompose ==
    ( /\ pc = "returned"
      /\ prev.valid
      /\ prev.status = 0
      /\ Balanced(prev.code)
      /\ Balanced(code) ) =>
        LET r == InterpretRun(storage, vaword, tapesize, prev.code \o code,
                              InterpretEntry(prev.entry.tape, prev.entry.ptr),
                              prev.keys \o keys, 2 * MaxSteps + 2)
        IN  /\ r.done
            /\ r.tape = tape
            /\ r.ptr = ptr
            /\ r.out = prev.out \o out
            /\ r.status = status

\* "+" and then "+:" have run: the second call printed 2.
C8_Witness ==
    /\ pc = "returned"
    /\ prev.valid
    /\ Fresh(prev.entry)
    /\ prev.code = << "+" >>
    /\ code = << "+", ":" >>
    /\ status = 0
    /\ out = << 50 >>

(***************************************************************************)
(* The decimal numeral of a cell's value, computed on its bytes.           *)
(***************************************************************************)
RECURSIVE RemainderFrom(_, _)
\* The number made of the bytes k.. of v, modulo 10.
RemainderFrom(v, k) ==
    IF k > Len(v) THEN 0 ELSE (RemainderFrom(v, k + 1) * 256 + v[k]) % 10

\* The bytes of v divided by 10.
TenthOf(v) ==
    [k \in 1..Len(v) |-> (RemainderFrom(v, k + 1) * 256 + v[k]) \div 10]

RECURSIVE MagnitudeDigits(_)
\* The decimal digits, as character codes, of the bytes read as unsigned.
MagnitudeDigits(v) ==
    IF IsZero(TenthOf(v)) THEN << 48 + RemainderFrom(v, 1) >>
    ELSE Append(MagnitudeDigits(TenthOf(v)), 48 + RemainderFrom(v, 1))

\* The decimal numeral of the value a cell of type t with bytes v holds.
Numeral(t, v) ==
    IF IsNegative(t, v) THEN << 45 >> \o MagnitudeDigits(Negated(v))
    ELSE MagnitudeDigits(v)

(***************************************************************************)
(* C10.  ':' executed with the cursor in bounds prints the decimal numeral *)
(* of the value the current cell holds, for every cell type and value,     *)
(* and the call goes on.                                                   *)
(***************************************************************************)
C10_PrintsDecimal ==
    [][ (Executes /\ CharAt(code, codeptr) = ":" /\ InBounds) =>
          /\ out' = out \o Numeral(storage, tape[ptr])
          /\ pc' = "interpret" ]_vars

(***************************************************************************)
(* C9.  translate() returns a nonzero status for every stream in which a   *)
(* '[' has no structurally matching ']' or a ']' has no structurally       *)
(* matching '['.                                                           *)
(***************************************************************************)
C9_UnmatchedBracketFails ==
    (pc = "translated" /\ ~Balanced(bfcode)) => tstatus # 0

(***************************************************************************)
(* A run of the stream applied one character at a time, and the            *)
(* statements translate() wrote for it.                                    *)
(***************************************************************************)
\* The index after the characters s[a..b], from i.
IndexOneAtATime(s, a, b, i) == i + Occurs(s, ">", a, b) - Occurs(s, "<", a, b)

RECURSIVE CellOneAtATime(_, _, _, _)
\* The cell after the characters s[a..b], from the bytes v.
CellOneAtATime(s, a, b, v) ==
    IF a > b THEN v
    ELSE CellOneAtATime(s, a + 1, b, IF s[a] = "+" THEN Incr(v) ELSE Decr(v))

RECURSIVE IndexAfter(_, _)
\* The index after the statements among the pieces ps, from i.
IndexAfter(ps, i) ==
    IF ps = << >> THEN i ELSE IndexAfter(Tail(ps), MoveEffect(Head(ps), i))

RECURSIVE CellAfter(_, _)
\* The cell after the statements among the pieces ps, from the bytes v.
CellAfter(ps, v) ==
    IF ps = << >> THEN v ELSE CellAfter(Tail(ps), ChangeEffect(Head(ps), v))

\* The pieces this step of translate() appends to ccode.
Emitted == SubSeq(ccode', Len(ccode) + 1, Len(ccode'))

(***************************************************************************)
(* C2.  For every cell type, the statement translate() writes for a        *)
(* maximal run of '>'/'<' changes the index i, and the statement it writes *)
(* for a maximal run of '+'/'-' changes the cell tape[i] modulo 2^width,   *)
(* by exactly what the characters of the run applied one at a time come    *)
(* to.                                                                     *)
(***************************************************************************)
C2_RunEqualsCharacters ==
    [][ /\ TranslateMove =>
              IndexAfter(Emitted, 0) = IndexOneAtATime(bfcode, bfptr, bfptr' - 1, 0)
        /\ TranslateChange =>
              \A v \in { Zero(storage), Incr(Zero(storage)), Decr(Zero(storage)) } :
                  CellAfter(Emitted, v) = CellOneAtATime(bfcode, bfptr, bfptr' - 1, v)
      ]_vars

(***************************************************************************)
(* C1.  For a balanced stream without ':', on every tape capacity and cell *)
(* width, the program translate() wrote, run on a zeroed tape with the     *)
(* keys it read, has printed exactly what interpret() prints for the same  *)
(* stream and keys on a fresh environment.                                 *)
(***************************************************************************)
\* interpret() needs at most this many iterations for MaxSteps statements
\* of the program, each standing for a run of at most MaxLen characters.
Fuel == (MaxSteps + 1) * (MaxLen + 1)

\* interpret(bfcode) on a fresh environment, fed the keys the program read.
Interpreted ==
    InterpretRun(storage, vaword, tapesize, bfcode,
                 InterpretEntry(FreshTape(storage, tapesize), ResetPtr),
                 xkeys, Fuel)

C1_RoundTrip ==
    (pc = "exited" /\ Balanced(bfcode) /\ \A k \in DOMAIN bfcode : bfcode[k] # ":")
        => (Interpreted.done => xout = Interpreted.out)

(***************************************************************************)
(* translate() as a function of the storage type, the capacity and the     *)
(* stream.                                                                 *)
(***************************************************************************)
\* One iteration of the main loop of translate(), from the locals c.
TranslateCase(t, va, s, c) ==
    LET ch == CharAt(s, c.bfptr)
    IN  CASE ch \in { ">", "<" } ->
               [c EXCEPT !.ccode = @ \o MovePieces(t, va, s, c.bfptr, c.indentlevel),
                         !.bfptr = Collate(s, c.bfptr, Zero(t), ">", "<").bfsearchptr]
          [] ch \in { "+", "-" } ->
               [c EXCEPT !.ccode = @ \o ChangePieces(t, va, s, c.bfptr, c.indentlevel),
                         !.bfptr = Collate(s, c.bfptr, Zero(t), "+", "-").bfsearchptr]
          [] ch = "." ->
               [c EXCEPT !.ccode = @ \o PutCharPieces(c.indentlevel), !.bfptr = @ + 1]
          [] ch = "," ->
               [c EXCEPT !.ccode = @ \o GetCharPieces(c.indentlevel), !.bfptr = @ + 1]
          [] ch = "[" ->
               [c EXCEPT !.ccode = @ \o OpenPieces(c.indentlevel),
                         !.indentlevel = @ + 1, !.bfptr = @ + 1]
          [] ch = "]" ->
               [c EXCEPT !.ccode = @ \o ClosePieces(c.indentlevel),
                         !.indentlevel = @ - 1, !.bfptr = @ + 1]
          [] OTHER -> [c EXCEPT !.bfptr = @ + 1]

RECURSIVE TranslateLoop(_, _, _, _)
\* The main loop of translate(), from the locals c to the NUL.
TranslateLoop(t, va, s, c) ==
    IF CharAt(s, c.bfptr) = NUL THEN c
    ELSE TranslateLoop(t, va, s, TranslateCase(t, va, s, c))

\* translate(s, ccode) on an environment of type t and capacity n: the text
\* written and the value returned.
TranslateRun(t, va, n, s) ==
    LET c == TranslateLoop(t, va, s,
                 [bfptr |-> 1, ccode |-> Prologue(t, n), indentlevel |-> 1])
    IN  [ccode |-> c.ccode \o Epilogue(c.indentlevel),
         indentlevel |-> c.indentlevel - 1,
         status |-> TranslateStatus(c.indentlevel)]

(***************************************************************************)
(* translate() called on an environment that interpret() has used.         *)
(***************************************************************************)
\* The caller has made no translate() call yet and no call is running.
Ready == pc \in { "constructed", "returned", "reset" }

\* One interpret() call, or none, then one translate() call.
NextCalls ==
    \/ pc = "constructed" /\ \E s \in Streams(MaxLen) : Interpret(s)
    \/ StepRight
    \/ StepLeft
    \/ StepInc
    \/ StepDec
    \/ StepPutChar
    \/ StepPutNumber
    \/ StepGetChar
    \/ StepOpen
    \/ StepClose
    \/ StepDefault
    \/ Return
    \/ Ready /\ \E s \in Streams(MaxLen - fed) : Translate(s)
    \/ TranslateMove
    \/ TranslateChange
    \/ TranslatePutChar
    \/ TranslateGetChar
    \/ TranslateOpen
    \/ TranslateClose
    \/ TranslateDefault
    \/ TranslateReturn

SpecCalls == Init /\ [][NextCalls]_vars

(***************************************************************************)
(* C11.  translate() never touches the tape store: no step of a call       *)
(* changes a cell or the cursor, whatever they hold, and the text and the  *)
(* status it returns are those determined by the stream, the capacity and  *)
(* the cell type alone.                                                    *)
(***************************************************************************)
C11_TranslateLeavesTape ==
    [][ (pc = "translate" \/ pc' = "translate") =>
          /\ tape' = tape
          /\ ptr' = ptr
          /\ pc' = "translated" =>
                /\ ccode' = TranslateRun(storage, vaword, tapesize, bfcode).ccode
                /\ tstatus' = TranslateRun(storage, vaword, tapesize, bfcode).status
      ]_vars

\* translate() has returned on an environment whose cursor is off the start
\* and whose tape is no longer zeroed.
C11_Witness ==
    /\ pc = "translated"
    /\ ptr # minaddr
    /\ tape # FreshTape(storage, tapesize)
    /\ bfcode = << "[" >>
    /\ tstatus = 1

(***************************************************************************)
(* Environments of any capacity a size_t can hold, 0 included.             *)
(***************************************************************************)
InitSizes == ConstructSized(CallerTypes, 0..MaxTape)

NextSizes ==
    \/ NextCalls
    \/ Ready /\ Reset

SpecSizes == InitSizes /\ [][NextSizes]_vars

(***************************************************************************)
(* C12.  Constructing an environment of capacity 0 fails at setup: no      *)
(* environment of capacity 0 exists on which an interpret(), translate()   *)
(* or reset() call is made and returns.                                    *)
(***************************************************************************)
C12_ZeroCapacityFails ==
    tapesize <= 0 =>
        pc \notin { "interpret", "returned", "reset", "translate", "translated" }

(***************************************************************************)
(* xlbftranslator: main(argc, argv), run as                                *)
(* xlbftranslator memsize bfsrc cdest.                                     *)
(***************************************************************************)
\* The diagnostics main() prints on stderr before it gives up.
MsgUsage == "Follow this format in command line: xlbftranslator memsize bfsrc cdest.\n"
MsgMemsize == "You must supply a valid positive integer for the size of memory allocated.\n"
MsgSource == "Invalid brainfuck source file.\n"
MsgDest == "Unable to create C destination file.\n"

\* The values strtol(argv[1]) can give: negative, 0 (also for text that is
\* no number) and the positive sizes.
MemSizes == { -1 } \cup 0..MaxTape

RECURSIVE TextLen(_)
\* strlen of the text made of the pieces cc.
TextLen(cc) ==
    IF cc = << >> THEN 0
    ELSE Len(Head(cc).pre) + Len(Head(cc).num) + Len(Head(cc).post) + TextLen(Tail(cc))

\* What fprintf writes for a piece passed as its format: %% becomes %.
\* The printf statement is the only text of translate() with a percent sign.
FprintfPiece(p) ==
    IF p.pre = "printf(\"%%c\", tape[i]);\n" THEN Piece("printf(\"%c\", tape[i]);\n")
    ELSE p

\* The command line is given and main() starts.
FrontMain ==
    /\ front.at = "idle"
    /\ pc = "constructed"
    /\ \E argc \in { 3, 4 }, memsize \in MemSizes, srcok \in BOOLEAN,
          dstok \in BOOLEAN, file \in Streams(MaxLen) :
          front' = [FrontIdle EXCEPT !.at = "args", !.argc = argc,
                                     !.memsize = memsize, !.srcok = srcok,
                                     !.dstok = dstok, !.file = file]
    /\ UNCHANGED << envvars, callvars, trvars, xvars, console >>

\* What a step of main() before the translate() call leaves alone.
FrontFrame == UNCHANGED << storage, vaword, callvars, trvars, xvars, console >>

\* main() returns 1 after printing msg on stderr.
FrontFail(msg) == [front EXCEPT !.err = Append(@, msg), !.exit = 1, !.at = "exit"]

\* if (argc != 4) { ...; return 1; }
FrontArgs ==
    /\ front.at = "args"
    /\ front' = IF front.argc # 4 THEN FrontFail(MsgUsage)
                ELSE [front EXCEPT !.at = "memsize"]
    /\ UNCHANGED << tapesize, tape, ptr >>
    /\ FrontFrame

\* memsize = strtol(argv[1]); if (memsize <= 0) { ...; return 1; }
FrontMemsize ==
    /\ front.at = "memsize"
    /\ front' = IF front.memsize <= 0 THEN FrontFail(MsgMemsize)
                ELSE [front EXCEPT !.at = "source"]
    /\ UNCHANGED << tapesize, tape, ptr >>
    /\ FrontFrame

\* bfsrcfp = fopen(bfsrc, "rb"); a null handle is reported and main()
\* goes on.
FrontSource ==
    /\ front.at = "source"
    /\ front' = [front EXCEPT !.at = "dest",
                              !.err = IF front.srcok THEN @ ELSE Append(@, MsgSource)]
    /\ UNCHANGED << tapesize, tape, ptr >>
    /\ FrontFrame

\* cdestfp = fopen(cdest, "wb"); a null handle is reported and main()
\* goes on.
FrontDest ==
    /\ front.at = "dest"
    /\ front' = [front EXCEPT !.at = "construct",
                              !.err = IF front.dstok THEN @ ELSE Append(@, MsgDest)]
    /\ UNCHANGED << tapesize, tape, ptr >>
    /\ FrontFrame

\* xl_brainfuck_env<int> bfe(memsize);
FrontConstruct ==
    /\ front.at = "construct"
    /\ tapesize' = front.memsize
    /\ tape' = FreshTape(storage, front.memsize)
    /\ ptr' = minaddr
    /\ front' = [front EXCEPT !.at = "read"]
    /\ FrontFrame

\* fseek, ftell, rewind, calloc, fread on bfsrcfp: undefined on a null
\* handle.
FrontRead ==
    /\ front.at = "read"
    /\ front' = IF front.srcok
                THEN [front EXCEPT !.at = "translate", !.filesize = Len(front.file),
                                   !.copied = TRUE]
                ELSE [front EXCEPT !.at = "undefined"]
    /\ UNCHANGED << tapesize, tape, ptr >>
    /\ FrontFrame

\* ccodebuffer = calloc(filesize * 32 + 1, 1); bfe.translate(bfcodebuffer,
\* ccodebuffer); the value translate() returns is not used.  A text longer
\* than the buffer is written past its end: main() either goes on or the
\* behaviour is undefined from here.
FrontTranslate ==
    /\ front.at = "translate"
    /\ LET r == TranslateRun(storage, vaword, tapesize, front.file)
           size == front.filesize * 32
       IN  /\ bfcode' = front.file
           /\ bfptr' = Len(front.file) + 1
           /\ ccode' = r.ccode
           /\ tstatus' = r.status
           /\ indentlevel' = r.indentlevel
           /\ \E next \in (IF TextLen(r.ccode) > size THEN { "write", "undefined" }
                           ELSE { "write" }) :
                 front' = [front EXCEPT !.at = next, !.ccodesize = size,
                                        !.translated = TRUE]
    /\ pc' = "translated"
    /\ UNCHANGED << envvars, code, codeptr, status, diag, out, trace, keys, entry,
                    prev, fed, xvars, console >>

\* fprintf(cdestfp, ccodebuffer): the text is the format; undefined on a
\* null handle.
FrontWrite ==
    /\ front.at = "write"
    /\ front' = IF front.dstok
                THEN [front EXCEPT !.at = "done",
                                   !.written = [k \in DOMAIN ccode |-> FprintfPiece(ccode[k])]]
                ELSE [front EXCEPT !.at = "undefined"]
    /\ UNCHANGED << tapesize, tape, ptr >>
    /\ FrontFrame

\* free, fclose, return 0;
FrontExit ==
    /\ front.at = "done"
    /\ front' = [front EXCEPT !.at = "exit", !.exit = 0]
    /\ UNCHANGED << tapesize, tape, ptr >>
    /\ FrontFrame

InitFront == ConstructSized({ "int" }, { 0 })

NextFront ==
    \/ FrontMain
    \/ FrontArgs
    \/ FrontMemsize
    \/ FrontSource
    \/ FrontDest
    \/ FrontConstruct
    \/ FrontRead
    \/ FrontTranslate
    \/ FrontWrite
    \/ FrontExit

SpecFront == InitFront /\ [][NextFront]_vars

(***************************************************************************)
(* C13.  When the argument count is wrong, the memory size is not          *)
(* positive, the source file cannot be opened or the destination file      *)
(* cannot be created, main() of xlbftranslator prints a diagnostic on      *)
(* stderr and exits with code 1, without reading, translating or writing   *)
(* anything.                                                               *)
(***************************************************************************)
C13_FrontEndRejects ==
    (/\ front.at # "idle"
     /\ \/ front.argc # 4
        \/ front.memsize <= 0
        \/ ~front.srcok
        \/ ~front.dstok)
    => /\ front.at \in { "args", "memsize", "source", "dest", "exit" }
       /\ ~front.copied /\ ~front.translated /\ front.written = << >>
       /\ front.at = "exit" => (front.exit = 1 /\ front.err # << >>)

(***************************************************************************)
(* xlbfconsole: main().  A round of the outer loop reads lines until the   *)
(* reset keyword, an empty line or a full buffer ends the inner loop, and  *)
(* then calls interpret() on the code buffer.  The '\n' that ends a line   *)
(* is copied with it; it is the ignored character "x" of the stream.       *)
(***************************************************************************)
\* The rounds a behaviour follows.
MaxRounds == 2

RECURSIVE KeySeqs(_)
\* The key sequences of length n.
KeySeqs(n) ==
    IF n = 0 THEN { << >> }
    ELSE { << k >> \o ks : k \in Keys, ks \in KeySeqs(n - 1) }

\* What a step of main() leaves alone.
ConsoleFrame == UNCHANGED << storage, vaword, tapesize, trvars, xvars, front >>

\* main() starts: the buffers are zeroed and the banner is printed.
ConsoleMain ==
    /\ console.at = "idle"
    /\ pc = "constructed"
    /\ console' = [console EXCEPT !.at = "prompt"]
    /\ UNCHANGED << tape, ptr, callvars >>
    /\ ConsoleFrame

\* The inner loop is at fgets and the line budget is not used up.
ConsolePrompt == console.at = "prompt" /\ console.round < MaxRounds

\* A line of code is read: it is appended to the code buffer and the inner
\* loop goes on.
ConsoleReadCode ==
    /\ ConsolePrompt
    /\ \E s \in Streams(MaxLen - fed - 1) \ { << >> } :
          /\ console' = [console EXCEPT !.codebuffer = @ \o s \o << "x" >>]
          /\ fed' = fed + Len(s) + 1
    /\ UNCHANGED << tape, ptr, pc, code, codeptr, status, diag, out, trace, keys,
                    entry, prev >>
    /\ ConsoleFrame

\* An empty line is read: its '\n' is appended and the inner loop ends.
ConsoleReadEmpty ==
    /\ ConsolePrompt
    /\ console' = [console EXCEPT !.codebuffer = @ \o << "x" >>,
                                  !.breakon = "empty", !.at = "interpret"]
    /\ UNCHANGED << tape, ptr, callvars >>
    /\ ConsoleFrame

\* The reset keyword is read: bfe.reset() is called and the inner loop
\* ends; the code buffer is left as it is.
ConsoleReadReset ==
    /\ ConsolePrompt
    /\ tape' = ResetTape(storage, tapesize, tape)
    /\ ptr' = ResetPtr
    /\ console' = [console EXCEPT !.breakon = "reset", !.at = "interpret"]
    /\ UNCHANGED callvars
    /\ ConsoleFrame

\* After the inner loop, whatever ended it: bfe.interpret(codebuffer), then
\* the code buffer is cleared and the next round starts.  A call that does
\* not return within MaxSteps iterations is followed no further.
ConsoleInterpret ==
    /\ console.at = "interpret"
    /\ \E ks \in KeySeqs(Occurs(console.codebuffer, ",", 1, Len(console.codebuffer))) :
          LET r == InterpretRun(storage, vaword, tapesize, console.codebuffer,
                                InterpretEntry(tape, ptr), ks, MaxSteps)
          IN  /\ tape' = r.tape
              /\ ptr' = r.ptr
              /\ codeptr' = r.codeptr
              /\ status' = r.status
              /\ diag' = r.diag
              /\ out' = r.out
              /\ keys' = ks
              /\ pc' = IF r.done THEN "returned" ELSE "interpret"
              /\ console' = IF r.done
                            THEN [console EXCEPT !.at = "prompt", !.codebuffer = << >>,
                                                 !.round = @ + 1]
                            ELSE [console EXCEPT !.at = "running"]
    /\ code' = console.codebuffer
    /\ entry' = [tape |-> tape, ptr |-> ptr]
    /\ UNCHANGED << trace, prev, fed >>
    /\ ConsoleFrame

InitConsole == Construct({ "int" })

NextConsole ==
    \/ ConsoleMain
    \/ ConsoleReadCode
    \/ ConsoleReadEmpty
    \/ ConsoleReadReset
    \/ ConsoleInterpret

SpecConsole == InitConsole /\ [][NextConsole]_vars

(***************************************************************************)
(* C14.  In the console loop a round ended by the reset keyword calls      *)
(* reset() and interprets none of the lines buffered earlier in the round: *)
(* when the next round starts the environment is in the reset state.       *)
(***************************************************************************)
C14_ResetDiscardsRound ==
    (console.at = "prompt" /\ console.breakon = "reset")
        => /\ tape = FreshTape(storage, tapesize)
           /\ ptr = minaddr

(***************************************************************************)
(* interpret() on streams long enough to nest loops, over the characters   *)
(* that make loops run: brackets, '+' and '>'.                             *)
(***************************************************************************)
MaxLoopLen == 6

LoopAlphabet == { "[", "]", "+", ">" }

LoopStreams(n) == UNION { [1..k -> LoopAlphabet] : k \in 0..n }

InitLoops == Construct(CallerTypes)

NextLoops ==
    \/ pc = "constructed" /\ \E s \in LoopStreams(MaxLoopLen) : Interpret(s)
    \/ StepRight
    \/ StepInc
    \/ StepOpen
    \/ StepClose
    \/ Return

SpecLoops == InitLoops /\ [][NextLoops]_vars

\* The structural match of the '[' at i: the least j > i at which the depth,
\* 1 after i, is back to 0.
MatchClose(s, i) ==
    CHOOSE j \in (i + 1)..Len(s) :
        /\ Occurs(s, "]", i + 1, j) = Occurs(s, "[", i + 1, j) + 1
        /\ \A k \in (i + 1)..(j - 1) :
              Occurs(s, "]", i + 1, k) # Occurs(s, "[", i + 1, k) + 1

\* The structural match of the ']' at j: the greatest i < j at which the
\* depth, 1 before j, is back to 0.
MatchOpen(s, j) ==
    CHOOSE i \in 1..(j - 1) :
        /\ Occurs(s, "[", i, j - 1) = Occurs(s, "]", i, j - 1) + 1
        /\ \A k \in (i + 1)..(j - 1) :
              Occurs(s, "[", k, j - 1) # Occurs(s, "]", k, j - 1) + 1

(***************************************************************************)
(* C15.  A '[' at i executed with the cursor in bounds and a matching ']'  *)
(* present moves the position to j + 1 when the current cell is 0, j being *)
(* the structural match of i, and to i + 1 when the cell is not 0; tape    *)
(* and cursor stay as they are and the call goes on.                       *)
(***************************************************************************)
C15_OpenJumps ==
    [][ (Executes /\ CharAt(code, codeptr) = "[" /\ InBounds
           /\ HasClose(code, codeptr))
        => /\ pc' = "interpret"
           /\ tape' = tape
           /\ ptr' = ptr
           /\ codeptr' = IF IsZero(tape[ptr]) THEN MatchClose(code, codeptr) + 1
                         ELSE codeptr + 1
      ]_vars

\* A '[' on a zero cell has skipped a loop that holds a nested loop.
C15_Witness ==
    /\ code = << "[", "[", "]", "+", "]", "+" >>
    /\ trace = << 1 >>
    /\ codeptr = 6
    /\ pc = "interpret"

(***************************************************************************)
(* C16.  A ']' at j moves the position to its structurally matching '[',   *)
(* whatever the current cell holds and wherever the cursor is, without     *)
(* touching tape or cursor, so that the '[' is the next instruction        *)
(* executed; when the backward scan passes the start of the stream without *)
(* a match the call returns 1 with the missing '[' diagnostic.             *)
(***************************************************************************)
C16_CloseJumpsBack ==
    [][ (Executes /\ CharAt(code, codeptr) = "]")
        => /\ tape' = tape
           /\ ptr' = ptr
           /\ IF HasOpen(code, codeptr)
              THEN /\ pc' = "interpret"
                   /\ codeptr' = MatchOpen(code, codeptr)
                   /\ CharAt(code, codeptr') = "["
              ELSE /\ pc' = "returned"
                   /\ status' = 1
                   /\ diag' = MsgMissingOpen
      ]_vars

\* A ']' executed with the cursor past the tape has jumped back to its '['.
C16_Witness ==
    /\ code = << "+", "[", ">", "]" >>
    /\ ~InBounds
    /\ trace = << 1, 2, 3, 4 >>
    /\ codeptr = 2
    /\ pc = "interpret"

(***************************************************************************)
(* C17.  translate() validates the syntax only through the residual        *)
(* nesting depth and only at the end: no status is decided while the       *)
(* stream is being walked; at the return every character has been          *)
(* processed and the whole epilogue written, and the status is nonzero     *)
(* exactly when the number of '[' differs from the number of ']'.          *)
(***************************************************************************)
\* The pieces of cc that are neither indentation nor empty lines.
Statements(cc) == SelectSeq(cc, LAMBDA p : p.pre \notin { "\t", "\n" })

\* The statements the text ends with.
LastStatements(cc, n) ==
    LET st == Statements(cc)
    IN  IF Len(st) < n THEN << >>
        ELSE [k \in 1..n |-> st[Len(st) - n + k].pre]

C17_StatusFromDepthAtEnd ==
    /\ pc = "translate" => tstatus = -1
    /\ pc = "translated" =>
          /\ bfptr = Len(bfcode) + 1
          /\ LastStatements(ccode, 4)
               = << "free(tape);\n", "_getch();\n", "return 0;\n", "}\n" >>
          /\ tstatus \in { 0, 1 }
          /\ tstatus # 0 <=>
                Occurs(bfcode, "[", 1, Len(bfcode)) # Occurs(bfcode, "]", 1, Len(bfcode))

\* translate() has returned failure for a stream with more ']' than '[',
\* after writing the statement for the character that follows them.
C17_Witness ==
    /\ pc = "translated"
    /\ bfcode = << "]", "]", "." >>
    /\ tstatus = 1
    /\ "printf(\"%%c\", tape[i]);\n" \in { ccode[k].pre : k \in DOMAIN ccode }

(***************************************************************************)
(* C18.  For each '.' of the stream the text translate() returns holds     *)
(* exactly one statement that, executed, prints the current cell tape[i]   *)
(* as a single character.                                                  *)
(***************************************************************************)
\* Executed on a cell of the storage type, the statement st prints the
\* cell as one character.
PrintsCell(st) ==
    \A v \in { Zero(storage), Incr(Zero(storage)), Decr(Zero(storage)) } :
        PrintfEffect(st, storage, v) = FormatC(IntOfBytes(Widen4(storage, v)))

C18_PutCharStatement ==
    pc = "translated" =>
        Cardinality({ k \in DOMAIN ccode : PrintsCell(ccode[k]) })
            = Occurs(bfcode, ".", 1, Len(bfcode))

(***************************************************************************)
(* C19.  translate() walks the stream once, left to right, and always      *)
(* terminates: an iteration of the main loop moves the input position      *)
(* forward, by at least one character for a run and by exactly one for     *)
(* every other character, never past the NUL, so a stream of n characters  *)
(* takes at most n iterations whatever its brackets, and the call returns *)
(* when, and only when, the position is at the NUL.                        *)
(***************************************************************************)
C19_WalksOnce ==
    [][ /\ pc' = "translate" => bfptr' \in 1..(Len(bfcode') + 1)
        /\ (pc = "translate" /\ pc' = "translate")
           => /\ bfptr' > bfptr
              /\ CharAt(bfcode, bfptr) \notin { ">", "<", "+", "-" }
                    => bfptr' = bfptr + 1
              /\ \A k \in bfptr..(bfptr' - 1) :
                    bfcode[k] \in (IF bfcode[bfptr] \in { ">", "<" } THEN { ">", "<" }
                                   ELSE IF bfcode[bfptr] \in { "+", "-" } THEN { "+", "-" }
                                   ELSE { bfcode[bfptr] })
        /\ (pc = "translate" /\ pc' # "translate")
           => /\ pc' = "translated"
              /\ CharAt(bfcode, bfptr) = NUL
              /\ bfptr' = Len(bfcode) + 1
      ]_vars

\* translate() has returned after walking an unbalanced stream that holds a
\* run.
C19_Witness ==
    /\ pc = "translated"
    /\ bfcode = << "]", ">", "<" >>
    /\ bfptr = 4

(***************************************************************************)
(* C20.  An instruction of interpret() that raises an access violation or  *)
(* a syntax error leaves the tape and the pointer as they were just before *)
(* it; what the earlier instructions of the call did stays: the tape and   *)
(* the pointer at the return are those the instructions executed before    *)
(* the failing one produced from the state the call began in, and the next *)
(* interpret() begins with exactly that tape and pointer.                  *)
(***************************************************************************)
C20_FailureKeepsState ==
    [][ /\ (Executes /\ Raises) =>
              /\ pc' = "returned"
              /\ tape' = tape
              /\ ptr' = ptr
              /\ LET r == InterpretRun(storage, vaword, tapesize, code,
                                       InterpretEntry(entry.tape, entry.ptr),
                                       keys, Len(trace))
                 IN  /\ ~r.done
                     /\ r.codeptr = codeptr
                     /\ r.tape = tape'
                     /\ r.ptr = ptr'
        /\ (pc = "returned" /\ pc' = "interpret") =>
              /\ tape' = tape
              /\ ptr' = ptr
              /\ entry' = [tape |-> tape, ptr |-> ptr]
      ]_vars

\* "+]" has failed at its ']' and the next call, ":", has printed the 1
\* the first call stored.
C20_Witness ==
    /\ pc = "returned"
    /\ prev.valid
    /\ Fresh(prev.entry)
    /\ prev.code = << "+", "]" >>
    /\ prev.status = 1
    /\ code = << ":" >>
    /\ status = 0
    /\ out = << 49 >>
    /\ ptr = 0

(***************************************************************************)
(* C21.  In xlbftranslator the buffer handed to translate() has            *)
(* 32 * filesize + 1 bytes, and for every source file, the empty one       *)
(* included, the text translate() writes with its prologue, its epilogue   *)
(* and its terminating NUL fits in that buffer.                            *)
(***************************************************************************)
C21_TextFitsBuffer ==
    front.translated => TextLen(ccode) + 1 <= front.ccodesize + 1


(***************************************************************************)
(* C22.  interpret() terminates on every stream without a ']': an          *)
(* executed instruction other than ']' either makes the call return        *)
(* nonzero or moves the position strictly forward, only a ']' moves it     *)
(* backward, and so on a stream of length n without ']' the positions      *)
(* executed are strictly increasing, at most n instructions are executed,  *)
(* and the call returns 0 exactly when the position has reached the NUL.   *)
(***************************************************************************)
C22_TerminatesWithoutClose ==
    [][ /\ (Executes /\ CharAt(code, codeptr) # "]") =>
              \/ pc' = "returned" /\ status' # 0
              \/ pc' = "interpret" /\ codeptr' > codeptr
        /\ (pc = "interpret" /\ pc' = "interpret" /\ codeptr' < codeptr) =>
              CharAt(code, codeptr) = "]"
        /\ (pc' \in { "interpret", "returned" }
              /\ \A k \in 1..Len(code') : code'[k] # "]") =>
              /\ Len(trace') <= Len(code')
              /\ Len(trace') < MaxSteps
              /\ \A k \in 1..(Len(trace') - 1) : trace'[k] < trace'[k + 1]
              /\ codeptr' \in 1..(Len(code') + 1)
              /\ pc' = "interpret" => \A k \in 1..Len(trace') : trace'[k] < codeptr'
              /\ (pc' = "returned" /\ status' = 0) => codeptr' = Len(code') + 1
      ]_vars

\* ",+." has run to its end in three instructions.
C22_Witness ==
    /\ pc = "returned"
    /\ code = << ",", "+", "." >>
    /\ trace = << 1, 2, 3 >>
    /\ status = 0
    /\ codeptr = 4

=============================================================================
